---- MODULE Spec2Model ----
(***************************************************************************)
(* Model of sui-benchmark's WorkloadConfiguration::configure               *)
(* (crates/sui-benchmark/src/workloads/workload_configuration.rs):         *)
(* the quota computation, the gas-config (token) lists, their split over   *)
(* the proxies and the sequential per-proxy provisioning / workload        *)
(* assembly loop, in Combined and in Disjoint mode.                        *)
(***************************************************************************)
EXTENDS Integers, Sequences, FiniteSets, TLC

(***************************************************************************)
(* IEEE-754 binary32 (Rust f32), round-to-nearest-even.  A finite          *)
(* non-negative value is m * 2^e with m = 0 or 2^23 <= m < 2^24; NaN is    *)
(* the only non-finite value the code can produce here (0.0 / 0.0).        *)
(***************************************************************************)
F32_MANTISSA_BITS == 24

F32_LIMB_BITS == 12

RECURSIVE Pow2Rec(_)
Pow2Rec(n) == IF n <= 0 THEN 1 ELSE 2 * Pow2Rec(n - 1)

Pow2Table == [n \in 0..30 |-> Pow2Rec(n)]

\* 2^n, 0 <= n <= 30
Pow2(n) == Pow2Table[n]

RECURSIVE BitLen(_)
BitLen(v) == IF v = 0 THEN 0 ELSE 1 + BitLen(v \div 2)

F32Zero == [nan |-> FALSE, m |-> 0, e |-> 0]

F32NaN == [nan |-> TRUE, m |-> 0, e |-> 0]

\* v shifted right by k bits, rounded to nearest, ties to even
RoundShift(v, k) ==
    IF k <= 0 THEN v
    ELSE LET q == v \div Pow2(k)
             r == v % Pow2(k)
             half == Pow2(k - 1)
         IN IF r > half \/ (r = half /\ q % 2 = 1) THEN q + 1 ELSE q

\* the f32 nearest to the exact value v * 2^e (v a non-negative integer)
F32Round(v, e) ==
    IF v = 0 THEN F32Zero
    ELSE LET bl == BitLen(v)
         IN IF bl > F32_MANTISSA_BITS
            THEN LET k == bl - F32_MANTISSA_BITS
                     m == RoundShift(v, k)
                 IN IF m = Pow2(F32_MANTISSA_BITS)
                    THEN [nan |-> FALSE, m |-> Pow2(F32_MANTISSA_BITS - 1), e |-> e + k + 1]
                    ELSE [nan |-> FALSE, m |-> m, e |-> e + k]
            ELSE [nan |-> FALSE, m |-> v * Pow2(F32_MANTISSA_BITS - bl),
                  e |-> e - (F32_MANTISSA_BITS - bl)]

\* as F32Round, for the exact value (v + s) * 2^e with 0 < s < 1 when sticky
F32RoundSticky(v, e, sticky) ==
    F32Round(2 * v + (IF sticky THEN 1 ELSE 0), e - 1)

\* `n as f32` for an unsigned integer n
IntToF32(n) == F32Round(n, 0)

\* n further steps of binary long division of rem by b: <<quotient, remainder>>
RECURSIVE LongDiv(_, _, _, _)
LongDiv(q, rem, b, n) ==
    IF n = 0 THEN <<q, rem>>
    ELSE LET r2 == 2 * rem
         IN IF r2 >= b THEN LongDiv(2 * q + 1, r2 - b, b, n - 1)
                       ELSE LongDiv(2 * q, r2, b, n - 1)

\* x / y in f32
F32Div(x, y) ==
    IF x.nan \/ y.nan \/ y.m = 0 THEN F32NaN
    ELSE IF x.m = 0 THEN F32Zero
    ELSE LET n == IF x.m >= y.m THEN F32_MANTISSA_BITS ELSE F32_MANTISSA_BITS + 1
             d == LongDiv(x.m \div y.m, x.m % y.m, y.m, n)
         IN F32RoundSticky(d[1], x.e - y.e - n, d[2] # 0)

\* x * y in f32; the 48-bit product of the mantissas is kept in two 24-bit halves
F32Mul(x, y) ==
    IF x.nan \/ y.nan THEN F32NaN
    ELSE IF x.m = 0 \/ y.m = 0 THEN F32Zero
    ELSE LET B == Pow2(F32_LIMB_BITS)
             W == Pow2(F32_MANTISSA_BITS)
             x1 == x.m \div B
             x0 == x.m % B
             y1 == y.m \div B
             y0 == y.m % B
             mid == x1 * y0 + x0 * y1
             t == (mid % B) * B + x0 * y0
             L == t % W
             H == x1 * y1 + (mid \div B) + (t \div W)
             s == IF BitLen(H) > 2 THEN BitLen(H) - 2 ELSE 0
             v == H * Pow2(F32_MANTISSA_BITS - s) + (L \div Pow2(s))
         IN F32RoundSticky(v, x.e + y.e + s, L % Pow2(s) # 0)

\* x - y in f32, for finite x >= y >= 0
F32Sub(x, y) ==
    IF x.nan \/ y.nan THEN F32NaN
    ELSE IF y.m = 0 THEN x
    ELSE IF x.m = 0 THEN F32Zero
    ELSE LET e == IF x.e < y.e THEN x.e ELSE y.e
         IN F32Round(x.m * Pow2(x.e - e) - y.m * Pow2(y.e - e), e)

\* x.ceil()
F32Ceil(x) ==
    IF x.nan \/ x.m = 0 \/ x.e >= 0 THEN x
    ELSE IF 0 - x.e >= F32_MANTISSA_BITS THEN IntToF32(1)
    ELSE IntToF32((x.m + Pow2(0 - x.e) - 1) \div Pow2(0 - x.e))

\* `x as u64`: truncation toward zero, NaN becomes 0
F32ToU64(x) ==
    IF x.nan \/ x.m = 0 THEN 0
    ELSE IF x.e >= 0 THEN x.m * Pow2(x.e)
    ELSE IF 0 - x.e >= F32_MANTISSA_BITS THEN 0
    ELSE x.m \div Pow2(0 - x.e)

(***************************************************************************)
(* Bounds of the model and the values the run options are drawn from.      *)
(* The values are far below 2^24, so every `as f32` of an option is exact  *)
(* and no u32 / u64 sum or product of the source overflows.  At least one  *)
(* proxy is given.                                                         *)
(***************************************************************************)
MaxWeight == 1

MaxAccounts == 2

MaxProxies == 3

TargetQpsValues == {0, 1, 5}

NumWorkersValues == {0, 3}

InFlightRatioValues == {0, 2}

HotnessValues == {0, 80, 150}

GasErrors == {"insufficient_gas", "rpc_error"}

Modes == {"Combined", "Disjoint"}

MkOpts(sc, to, de, qps, nw, ifr, hot, acc) ==
    [shared_counter |-> sc, transfer_object |-> to, delegation |-> de,
     target_qps |-> qps, num_workers |-> nw, in_flight_ratio |-> ifr,
     shared_counter_hotness_factor |-> hot, num_transfer_accounts |-> acc]

\* every combination of small option values
GridOpts ==
    [shared_counter : 0..MaxWeight, transfer_object : 0..MaxWeight,
     delegation : 0..MaxWeight, target_qps : TargetQpsValues,
     num_workers : NumWorkersValues, in_flight_ratio : InFlightRatioValues,
     shared_counter_hotness_factor : HotnessValues,
     num_transfer_accounts : 0..MaxAccounts]

\* the mix (1,1,0) at 100 qps, 4 workers, ratio 2; a counter-only run at
\* hotness 100; and two mixes whose weight ratios (3/5, 7/12) are not exact
\* in binary
ScenarioOpts ==
    { MkOpts(1, 1, 0, 100, 4, 2, 0, 2),
      MkOpts(1, 0, 0, 5, 3, 1, 100, 1),
      MkOpts(3, 2, 0, 25, 25, 1, 0, 1),
      MkOpts(7, 5, 0, 108, 1, 1, 50, 1) }

\* the handle of the k-th proxy of the input (handles are not in index order)
ProxyHandle(k) == 100 - k

(***************************************************************************)
(* State.  Indices follow the source: i counts proxies from 0.             *)
(***************************************************************************)
VARIABLES
    self,                 \* WorkloadConfiguration::{Combined, Disjoint}
    opts,                 \* the RunSpec::Bench fields and num_transfer_accounts
    proxies,              \* Vec<Arc<dyn ValidatorProxy>>
    pc,                   \* position of the async control flow
    i,                    \* loop index of `for (i, proxy) in proxies.iter().enumerate()`
    quota,                \* the derived qps / workers / max_ops values
    configs,              \* the five gas-config lists
    chunks,               \* split_workload of each of the five lists
    workloads,            \* `let mut workloads = vec![]` (Disjoint)
    pending,              \* the workload whose init() is awaited
    gas_out,              \* (workload_init_gas, workload_payload_gas) of this proxy
    proxy_workloads,      \* the result vector under construction
    result,               \* what configure returned
    inflight,             \* calls awaited and not yet returned
    requests,             \* history: every generate_all_gas_for_test call made
    gas_failure,          \* history: the error generate_all_gas_for_test raised
    trace                 \* history: call / return / construction events

vars == <<self, opts, proxies, pc, i, quota, configs, chunks, workloads, pending,
          gas_out, proxy_workloads, result, inflight, requests, gas_failure, trace>>

None == [none |-> TRUE]

Min(a, b) == IF a < b THEN a ELSE b

(***************************************************************************)
(* Collaborators whose code is outside this file.                          *)
(***************************************************************************)
\* a list of n gas configs; the tag tells the five lists apart
GasConfigs(tag, n) == [k \in 1..n |-> <<tag, k>>]

\* SharedCounterWorkload::generate_coin_config_for_init(num_shared_counters)
SharedCounter_generate_coin_config_for_init(num_shared_counters) ==
    GasConfigs("sc_init", num_shared_counters)

\* SharedCounterWorkload::generate_coin_config_for_payloads(max_ops)
SharedCounter_generate_coin_config_for_payloads(max_ops) ==
    GasConfigs("sc_payload", max_ops)

\* TransferObjectWorkload::generate_coin_config_for_payloads(num_tokens,
\* num_transfer_accounts, num_payloads): (transfer tokens, payload gas configs)
TransferObject_generate_coin_config_for_payloads(num_tokens, num_transfer_accounts, num_payloads) ==
    <<GasConfigs("to_token", num_tokens), GasConfigs("to_payload", num_payloads)>>

\* DelegationWorkload::generate_gas_config_for_payloads(count)
Delegation_generate_gas_config_for_payloads(count) ==
    GasConfigs("de_payload", count)

ChunkLen(len, num_chunks, k) ==
    (len \div num_chunks) + (IF k <= len % num_chunks THEN 1 ELSE 0)

ChunkStart(len, num_chunks, k) ==
    (k - 1) * (len \div num_chunks) + Min(k - 1, len % num_chunks) + 1

\* split_workload with the whole remainder left to the last sublist
split_workload_tail(workload, num_chunks) ==
    [k \in 1..num_chunks |->
        SubSeq(workload, (k - 1) * (Len(workload) \div num_chunks) + 1,
               IF k = num_chunks THEN Len(workload)
               ELSE k * (Len(workload) \div num_chunks))]

\* split_workload(&list, num_chunks): num_chunks contiguous sublists, the
\* remainder spread one each over the leading sublists
split_workload(workload, num_chunks) ==
    [k \in 1..num_chunks |->
        SubSeq(workload, ChunkStart(Len(workload), num_chunks, k),
               ChunkStart(Len(workload), num_chunks, k)
                 + ChunkLen(Len(workload), num_chunks, k) - 1)]

\* generate_all_gas_for_test: one materialised gas object per requested config
generate_all_gas_for_test(workload_gas_config) ==
    [workload_init_gas |->
        [shared_counter_init_gas |->
            workload_gas_config.shared_counter_workload_init_gas_config],
     workload_payload_gas |->
        [transfer_tokens |-> workload_gas_config.transfer_object_workload_tokens,
         transfer_object_payload_gas |->
            workload_gas_config.transfer_object_workload_payload_gas_config,
         shared_counter_payload_gas |->
            workload_gas_config.shared_counter_workload_payload_gas_config,
         delegation_payload_gas |-> workload_gas_config.delegation_gas_configs]]

\* make_shared_counter_workload / make_transfer_object_workload /
\* make_delegation_workload: no instance for a degenerate quota
make_workload(kind, target_qps, num_workers, max_ops, payload_gas) ==
    IF target_qps = 0 \/ num_workers = 0 \/ max_ops = 0
    THEN None
    ELSE [none |-> FALSE, kind |-> kind, target_qps |-> target_qps,
          num_workers |-> num_workers, max_ops |-> max_ops,
          payload_gas |-> payload_gas]

\* make_combination_workload: always an instance
make_combination_workload(o, payload_gas) ==
    [none |-> FALSE, kind |-> "combination", target_qps |-> o.target_qps,
     num_workers |-> o.num_workers, in_flight_ratio |-> o.in_flight_ratio,
     num_transfer_accounts |-> o.num_transfer_accounts,
     weights |-> <<o.shared_counter, o.transfer_object, o.delegation>>,
     payload_gas |-> payload_gas]

(***************************************************************************)
(* configure_disjoint_mode: per-kind quota (lines 138-177).                *)
(***************************************************************************)
\* (shared_counter_weight + transfer_object_weight + delegation_weight) as f32
weight_sum(o) == IntToF32(o.shared_counter + o.transfer_object + o.delegation)

shared_counter_weight_ratio(o) == F32Div(IntToF32(o.shared_counter), weight_sum(o))

transfer_object_weight_ratio(o) == F32Div(IntToF32(o.transfer_object), weight_sum(o))

delegate_weight_ratio(o) == F32Div(IntToF32(o.delegation), weight_sum(o))

\* (ratio * target_qps as f32) as u64
qps_of(ratio, target_qps) == F32ToU64(F32Mul(ratio, IntToF32(target_qps)))

\* (ratio * num_workers as f32).ceil() as u64
num_workers_of(ratio, num_workers) ==
    F32ToU64(F32Ceil(F32Mul(ratio, IntToF32(num_workers))))

\* 1.0 - (min(shared_counter_hotness_factor, 100) as f32 / 100.0)
shared_counter_ratio(o) ==
    F32Sub(IntToF32(1),
           F32Div(IntToF32(Min(o.shared_counter_hotness_factor, 100)), IntToF32(100)))

\* (max_ops as f32 * shared_counter_ratio) as u64
num_shared_counters(max_ops, o) ==
    F32ToU64(F32Mul(IntToF32(max_ops), shared_counter_ratio(o)))

\* (qps * in_flight_ratio) as u64
max_ops_of(qps, in_flight_ratio) == qps * in_flight_ratio

shared_counter_qps(o) == qps_of(shared_counter_weight_ratio(o), o.target_qps)

shared_counter_num_workers(o) ==
    num_workers_of(shared_counter_weight_ratio(o), o.num_workers)

transfer_object_qps(o) == qps_of(transfer_object_weight_ratio(o), o.target_qps)

transfer_object_num_workers(o) ==
    num_workers_of(transfer_object_weight_ratio(o), o.num_workers)

delegate_qps(o) == qps_of(delegate_weight_ratio(o), o.target_qps)

delegate_num_workers(o) == num_workers_of(delegate_weight_ratio(o), o.num_workers)

DisjointQuota(o) ==
    LET sc_qps == shared_counter_qps(o)
        sc_max_ops == max_ops_of(sc_qps, o.in_flight_ratio)
        to_qps == transfer_object_qps(o)
        de_qps == delegate_qps(o)
    IN [shared_counter_qps |-> sc_qps,
        shared_counter_num_workers |-> shared_counter_num_workers(o),
        shared_counter_max_ops |-> sc_max_ops,
        num_shared_counters |-> num_shared_counters(sc_max_ops, o),
        transfer_object_qps |-> to_qps,
        transfer_object_num_workers |-> transfer_object_num_workers(o),
        transfer_object_max_ops |-> max_ops_of(to_qps, o.in_flight_ratio),
        delegate_qps |-> de_qps,
        delegate_num_workers |-> delegate_num_workers(o),
        delegate_max_ops |-> max_ops_of(de_qps, o.in_flight_ratio)]

(***************************************************************************)
(* configure_disjoint_mode: the gas-config lists (lines 147-196).          *)
(***************************************************************************)
\* (init configs, payload configs) of the shared counter workload
DisjointSharedCounterConfigs(q) ==
    IF q.shared_counter_qps = 0 \/ q.shared_counter_max_ops = 0
       \/ q.shared_counter_num_workers = 0
    THEN <<<<>>, <<>>>>
    ELSE <<SharedCounter_generate_coin_config_for_init(q.num_shared_counters),
           SharedCounter_generate_coin_config_for_payloads(q.shared_counter_max_ops)>>

\* (tokens, payload configs) of the transfer object workload
DisjointTransferObjectConfigs(q, o) ==
    IF q.transfer_object_qps = 0 \/ q.transfer_object_max_ops = 0
       \/ q.transfer_object_num_workers = 0
    THEN <<<<>>, <<>>>>
    ELSE TransferObject_generate_coin_config_for_payloads(
             q.transfer_object_max_ops, o.num_transfer_accounts,
             q.transfer_object_max_ops)

\* the delegation configs generated whatever the weight
DisjointDelegationConfigsUnguarded(o) ==
    Delegation_generate_gas_config_for_payloads(o.num_transfer_accounts)

\* the delegation configs sized as in Combined mode, by max_ops
DisjointDelegationConfigsByMaxOps(o) ==
    IF o.delegation > 0
    THEN Delegation_generate_gas_config_for_payloads(o.target_qps * o.in_flight_ratio)
    ELSE <<>>

DisjointDelegationConfigs(o) ==
    IF o.delegation > 0
    THEN Delegation_generate_gas_config_for_payloads(o.num_transfer_accounts)
    ELSE <<>>

DisjointConfigs(q, o) ==
    [shared_counter_workload_init_gas_config |-> DisjointSharedCounterConfigs(q)[1],
     shared_counter_workload_payload_gas_config |-> DisjointSharedCounterConfigs(q)[2],
     transfer_object_workload_tokens |-> DisjointTransferObjectConfigs(q, o)[1],
     transfer_object_workload_payload_gas_config |->
         DisjointTransferObjectConfigs(q, o)[2],
     delegation_gas_configs |-> DisjointDelegationConfigs(o)]

(***************************************************************************)
(* configure_combined_mode_helper: quota and lists (lines 320-353).        *)
(***************************************************************************)
\* target_qps * in_flight_ratio
combined_max_ops(o) == o.target_qps * o.in_flight_ratio

CombinedQuota(o) ==
    [max_ops |-> combined_max_ops(o),
     num_shared_counters |-> num_shared_counters(combined_max_ops(o), o)]

\* all_shared_counter_coin_configs.unwrap_or((vec![], vec![]))
CombinedSharedCounterConfigs(q, o) ==
    IF o.shared_counter = 0
    THEN <<<<>>, <<>>>>
    ELSE <<SharedCounter_generate_coin_config_for_init(q.num_shared_counters),
           SharedCounter_generate_coin_config_for_payloads(q.max_ops)>>

\* all_transfer_object_coin_configs.unwrap_or((vec![], vec![]))
CombinedTransferObjectConfigs(q, o) ==
    IF o.transfer_object = 0
    THEN <<<<>>, <<>>>>
    ELSE TransferObject_generate_coin_config_for_payloads(
             q.max_ops, o.num_transfer_accounts, q.max_ops)

CombinedDelegationConfigs(q, o) ==
    IF o.delegation > 0
    THEN Delegation_generate_gas_config_for_payloads(q.max_ops)
    ELSE <<>>

CombinedConfigs(q, o) ==
    [shared_counter_workload_init_gas_config |-> CombinedSharedCounterConfigs(q, o)[1],
     shared_counter_workload_payload_gas_config |->
         CombinedSharedCounterConfigs(q, o)[2],
     transfer_object_workload_tokens |-> CombinedTransferObjectConfigs(q, o)[1],
     transfer_object_workload_payload_gas_config |->
         CombinedTransferObjectConfigs(q, o)[2],
     delegation_gas_configs |-> CombinedDelegationConfigs(q, o)]

(***************************************************************************)
(* Both modes: the split over the proxies and the per-proxy request.       *)
(***************************************************************************)
ListNames ==
    {"shared_counter_workload_init_gas_config",
     "shared_counter_workload_payload_gas_config",
     "transfer_object_workload_tokens",
     "transfer_object_workload_payload_gas_config",
     "delegation_gas_configs"}

\* the five `..._chunks = split_workload(&..., num_proxies)`
SplitAll(c, num_proxies) == [f \in ListNames |-> split_workload(c[f], num_proxies)]

\* every proxy given the first chunk
WorkloadGasConfigFirstChunk(ch, idx) == [f \in ListNames |-> ch[f][1]]

\* WorkloadGasConfig { ...: ..._chunks[i].clone(), ... } for loop index idx
WorkloadGasConfig(ch, idx) == [f \in ListNames |-> ch[f][idx + 1]]

Event(ev, idx, kind) == [ev |-> ev, idx |-> idx, kind |-> kind]

Call(op, idx) == [op |-> op, idx |-> idx]

(***************************************************************************)
(* Initial states: configure is about to be called.                        *)
(***************************************************************************)
Init ==
    /\ self \in Modes
    /\ opts \in GridOpts \cup ScenarioOpts
    /\ \E n \in 1..MaxProxies : proxies = [k \in 1..n |-> ProxyHandle(k)]
    /\ pc = "start"
    /\ i = 0
    /\ quota = None
    /\ configs = None
    /\ chunks = None
    /\ workloads = <<>>
    /\ pending = None
    /\ gas_out = None
    /\ proxy_workloads = <<>>
    /\ result = [status |-> "pending"]
    /\ inflight = {}
    /\ requests = <<>>
    /\ gas_failure = None
    /\ trace = <<>>

(***************************************************************************)
(* configure -> configure_disjoint_mode, up to the loop (lines 138-210).   *)
(***************************************************************************)
ConfigureDisjoint ==
    /\ pc = "start"
    /\ self = "Disjoint"
    /\ quota' = DisjointQuota(opts)
    /\ configs' = DisjointConfigs(quota', opts)
    /\ chunks' = SplitAll(configs', Len(proxies))
    /\ proxy_workloads' = <<>>
    /\ i' = 0
    /\ pc' = "loop"
    /\ UNCHANGED <<self, opts, proxies, workloads, pending, gas_out, result,
                   inflight, requests, gas_failure, trace>>

(***************************************************************************)
(* configure -> configure_combined_mode -> configure_combined_mode_helper, *)
(* up to the loop (lines 320-367).                                         *)
(***************************************************************************)
ConfigureCombined ==
    /\ pc = "start"
    /\ self = "Combined"
    /\ quota' = CombinedQuota(opts)
    /\ configs' = CombinedConfigs(quota', opts)
    /\ chunks' = SplitAll(configs', Len(proxies))
    /\ proxy_workloads' = <<>>
    /\ i' = 0
    /\ pc' = "loop"
    /\ UNCHANGED <<self, opts, proxies, workloads, pending, gas_out, result,
                   inflight, requests, gas_failure, trace>>

(***************************************************************************)
(* Loop head: the next proxy's WorkloadGasConfig is built and              *)
(* generate_all_gas_for_test is called and awaited (lines 212-236,         *)
(* 368-392).                                                                *)
(***************************************************************************)
ProvisionCall ==
    /\ pc = "loop"
    /\ i < Len(proxies)
    /\ workloads' = <<>>
    /\ requests' = Append(requests,
                          [proxy |-> proxies[i + 1],
                           workload_gas_config |-> WorkloadGasConfig(chunks, i)])
    /\ inflight' = inflight \cup {Call("generate_all_gas_for_test", i)}
    /\ trace' = Append(trace, Event("gas_call", i, "gas"))
    /\ pc' = "gas"
    /\ UNCHANGED <<self, opts, proxies, i, quota, configs, chunks, pending, gas_out,
                   proxy_workloads, result, gas_failure>>

\* the awaited call returns Ok((workload_init_gas, workload_payload_gas))
ProvisionOk ==
    /\ pc = "gas"
    /\ gas_out' = generate_all_gas_for_test(requests[Len(requests)].workload_gas_config)
    /\ inflight' = inflight \ {Call("generate_all_gas_for_test", i)}
    /\ trace' = Append(trace, Event("gas_ok", i, "gas"))
    /\ pc' = IF self = "Disjoint" THEN "shared_counter" ELSE "combination"
    /\ UNCHANGED <<self, opts, proxies, i, quota, configs, chunks, workloads, pending,
                   proxy_workloads, result, requests, gas_failure>>

\* the error is dropped and the loop goes on to the next proxy
ProvisionErrSkipsProxy ==
    /\ pc = "gas"
    /\ \E e \in GasErrors : gas_failure' = [none |-> FALSE, idx |-> i, err |-> e]
    /\ inflight' = inflight \ {Call("generate_all_gas_for_test", i)}
    /\ trace' = Append(trace, Event("gas_err", i, "gas"))
    /\ i' = i + 1
    /\ pc' = "loop"
    /\ UNCHANGED <<self, opts, proxies, quota, configs, chunks, workloads, pending,
                   gas_out, proxy_workloads, result, requests>>

\* the awaited call returns Err(e): `?` returns it from configure
ProvisionErr ==
    /\ pc = "gas"
    /\ \E e \in GasErrors :
         /\ gas_failure' = [none |-> FALSE, idx |-> i, err |-> e]
         /\ result' = [status |-> "err", err |-> e]
    /\ inflight' = inflight \ {Call("generate_all_gas_for_test", i)}
    /\ trace' = Append(trace, Event("gas_err", i, "gas"))
    /\ pc' = "done"
    /\ UNCHANGED <<self, opts, proxies, i, quota, configs, chunks, workloads, pending,
                   gas_out, proxy_workloads, requests>>

(***************************************************************************)
(* Disjoint mode: the three workloads of proxy i (lines 237-297).          *)
(***************************************************************************)
EmptyPayloadGas ==
    [transfer_tokens |-> <<>>, transfer_object_payload_gas |-> <<>>,
     shared_counter_payload_gas |-> <<>>, delegation_payload_gas |-> <<>>]

\* a constructed workload starts its init(init_gas, proxies[i], ..) and awaits it
StartInit(w, init_gas, next_pc) ==
    /\ pending' = w @@ [init_gas |-> init_gas, init_proxy |-> proxies[i + 1]]
    /\ inflight' = inflight \cup {Call("init", i)}
    /\ trace' = trace \o <<Event("make", i, w.kind), Event("init_call", i, w.kind)>>
    /\ pc' = next_pc

MakeSharedCounter ==
    /\ pc = "shared_counter"
    /\ LET w == make_workload("shared_counter", quota.shared_counter_qps,
                              quota.shared_counter_num_workers,
                              quota.shared_counter_max_ops,
                              [EmptyPayloadGas EXCEPT !.shared_counter_payload_gas =
                                  gas_out.workload_payload_gas.shared_counter_payload_gas])
       IN IF w.none
          THEN /\ pc' = "transfer_object"
               /\ UNCHANGED <<pending, inflight, trace>>
          ELSE StartInit(w, gas_out.workload_init_gas, "shared_counter_init")
    /\ UNCHANGED <<self, opts, proxies, i, quota, configs, chunks, workloads, gas_out,
                   proxy_workloads, result, requests, gas_failure>>

SharedCounterInitDone ==
    /\ pc = "shared_counter_init"
    /\ workloads' = Append(workloads, pending)
    /\ pending' = None
    /\ inflight' = inflight \ {Call("init", i)}
    /\ trace' = Append(trace, Event("init_ret", i, "shared_counter"))
    /\ pc' = "transfer_object"
    /\ UNCHANGED <<self, opts, proxies, i, quota, configs, chunks, gas_out,
                   proxy_workloads, result, requests, gas_failure>>

MakeTransferObject ==
    /\ pc = "transfer_object"
    /\ LET w == make_workload("transfer_object", quota.transfer_object_qps,
                              quota.transfer_object_num_workers,
                              quota.transfer_object_max_ops,
                              [EmptyPayloadGas EXCEPT
                                  !.transfer_tokens =
                                      gas_out.workload_payload_gas.transfer_tokens,
                                  !.transfer_object_payload_gas =
                                      gas_out.workload_payload_gas.transfer_object_payload_gas])
       IN IF w.none
          THEN /\ pc' = "delegation"
               /\ UNCHANGED <<pending, inflight, trace>>
          ELSE StartInit(w, [shared_counter_init_gas |-> <<>>], "transfer_object_init")
    /\ UNCHANGED <<self, opts, proxies, i, quota, configs, chunks, workloads, gas_out,
                   proxy_workloads, result, requests, gas_failure>>

TransferObjectInitDone ==
    /\ pc = "transfer_object_init"
    /\ workloads' = Append(workloads, pending)
    /\ pending' = None
    /\ inflight' = inflight \ {Call("init", i)}
    /\ trace' = Append(trace, Event("init_ret", i, "transfer_object"))
    /\ pc' = "delegation"
    /\ UNCHANGED <<self, opts, proxies, i, quota, configs, chunks, gas_out,
                   proxy_workloads, result, requests, gas_failure>>

\* the delegation workload is not initialised; the proxy's entry is pushed
MakeDelegation ==
    /\ pc = "delegation"
    /\ LET w == make_workload("delegation", quota.delegate_qps,
                              quota.delegate_num_workers, quota.delegate_max_ops,
                              [EmptyPayloadGas EXCEPT !.delegation_payload_gas =
                                  gas_out.workload_payload_gas.delegation_payload_gas])
           all == IF w.none THEN workloads ELSE Append(workloads, w)
       IN /\ workloads' = all
          /\ proxy_workloads' = Append(proxy_workloads, <<proxies[i + 1], all>>)
          /\ trace' = trace \o (IF w.none THEN <<>> ELSE <<Event("make", i, w.kind)>>)
                            \o <<Event("push", i, "entry")>>
    /\ i' = i + 1
    /\ pc' = "loop"
    /\ UNCHANGED <<self, opts, proxies, quota, configs, chunks, pending, gas_out,
                   result, inflight, requests, gas_failure>>

(***************************************************************************)
(* Combined mode: the one workload of proxy i (lines 394-413).             *)
(***************************************************************************)
\* init() is started but not awaited: the entry is pushed and the loop goes on
MakeCombinationDetached ==
    /\ pc = "combination"
    /\ LET w == make_combination_workload(opts, gas_out.workload_payload_gas) @@
                 [init_gas |-> gas_out.workload_init_gas, init_proxy |-> proxies[i + 1]]
       IN /\ pending' = w
          /\ proxy_workloads' = Append(proxy_workloads, <<proxies[i + 1], <<w>>>>)
    /\ inflight' = inflight \cup {Call("init", i)}
    /\ trace' = trace \o <<Event("make", i, "combination"),
                           Event("init_call", i, "combination"),
                           Event("push", i, "entry")>>
    /\ i' = i + 1
    /\ pc' = "loop"
    /\ UNCHANGED <<self, opts, proxies, quota, configs, chunks, workloads, gas_out,
                   result, requests, gas_failure>>

MakeCombination ==
    /\ pc = "combination"
    /\ StartInit(make_combination_workload(opts, gas_out.workload_payload_gas),
                 gas_out.workload_init_gas, "combination_init")
    /\ UNCHANGED <<self, opts, proxies, i, quota, configs, chunks, workloads, gas_out,
                   proxy_workloads, result, requests, gas_failure>>

CombinationInitDone ==
    /\ pc = "combination_init"
    /\ proxy_workloads' = Append(proxy_workloads, <<proxies[i + 1], <<pending>>>>)
    /\ pending' = None
    /\ inflight' = inflight \ {Call("init", i)}
    /\ trace' = trace \o <<Event("init_ret", i, "combination"), Event("push", i, "entry")>>
    /\ i' = i + 1
    /\ pc' = "loop"
    /\ UNCHANGED <<self, opts, proxies, quota, configs, chunks, workloads, gas_out,
                   result, requests, gas_failure>>

(***************************************************************************)
(* The loop is exhausted: Ok(proxy_workloads) (lines 298, 416).            *)
(***************************************************************************)
ReturnOk ==
    /\ pc = "loop"
    /\ i >= Len(proxies)
    /\ result' = [status |-> "ok", value |-> proxy_workloads]
    /\ pc' = "done"
    /\ UNCHANGED <<self, opts, proxies, i, quota, configs, chunks, workloads, pending,
                   gas_out, proxy_workloads, inflight, requests, gas_failure, trace>>

Next ==
    \/ ConfigureDisjoint
    \/ ConfigureCombined
    \/ ProvisionCall
    \/ ProvisionOk
    \/ ProvisionErr
    \/ MakeSharedCounter
    \/ SharedCounterInitDone
    \/ MakeTransferObject
    \/ TransferObjectInitDone
    \/ MakeDelegation
    \/ MakeCombination
    \/ CombinationInitDone
    \/ ReturnOk

Spec == Init /\ [][Next]_vars

(***************************************************************************)
(* Vocabulary of the properties.                                           *)
(***************************************************************************)
Configured == pc # "start"

Succeeded == result.status = "ok"

NumProxies == Len(proxies)

WeightOf == [shared_counter |-> opts.shared_counter,
             transfer_object |-> opts.transfer_object,
             delegation |-> opts.delegation]

Kinds == {"shared_counter", "transfer_object", "delegation"}

\* the gas-config lists that belong to each workload kind
ListsOf ==
    [shared_counter |-> {"shared_counter_workload_init_gas_config",
                         "shared_counter_workload_payload_gas_config"},
     transfer_object |-> {"transfer_object_workload_tokens",
                          "transfer_object_workload_payload_gas_config"},
     delegation |-> {"delegation_gas_configs"}]

RECURSIVE Concat(_, _)
Concat(seqs, k) == IF k = 0 THEN <<>> ELSE Concat(seqs, k - 1) \o seqs[k]

RECURSIVE SumLen(_, _)
SumLen(seqs, k) == IF k = 0 THEN 0 ELSE SumLen(seqs, k - 1) + Len(seqs[k])

\* the chunk of list f requested in the k-th generate_all_gas_for_test call
Requested(k, f) == requests[k].workload_gas_config[f]

TraceHas(ev, idx, lo, hi) ==
    \E c \in lo..hi : trace[c].ev = ev /\ trace[c].idx = idx

\* no gas config of the kind is requested at any proxy
NoTokens(kind) ==
    /\ \A f \in ListsOf[kind] : configs[f] = <<>>
    /\ \A k \in 1..Len(requests) : \A f \in ListsOf[kind] : Requested(k, f) = <<>>

\* no workload of the kind is constructed at any proxy
NoInstance(kind) == \A a \in 1..Len(trace) : ~(trace[a].ev = "make" /\ trace[a].kind = kind)

HasInstance(entry, kind) == \E n \in 1..Len(entry[2]) : entry[2][n].kind = kind

\* the value of the three quota fields of a kind in Disjoint mode
QuotaOf(kind) ==
    IF kind = "shared_counter"
    THEN <<quota.shared_counter_qps, quota.shared_counter_num_workers,
           quota.shared_counter_max_ops>>
    ELSE IF kind = "transfer_object"
    THEN <<quota.transfer_object_qps, quota.transfer_object_num_workers,
           quota.transfer_object_max_ops>>
    ELSE <<quota.delegate_qps, quota.delegate_num_workers, quota.delegate_max_ops>>

WeightSum == opts.shared_counter + opts.transfer_object + opts.delegation

CeilDiv(a, b) == (a + b - 1) \div b

\* floor(max_ops * (100 - min(hotness, 100)) / 100)
DistinctCounters(max_ops) ==
    (max_ops * (100 - Min(opts.shared_counter_hotness_factor, 100))) \div 100

(***************************************************************************)
(* C1.  The per-proxy steps run one proxy at a time, in input order: a     *)
(* generate_all_gas_for_test call starts only when every earlier call and  *)
(* every earlier init has returned, at most one awaited call is ever in    *)
(* flight, and a workload of proxy i is constructed only after proxy i's   *)
(* provisioning call returned Ok.                                          *)
(***************************************************************************)
C1_Sequential ==
    /\ Cardinality(inflight) <= 1
    /\ \A a \in 1..Len(trace) :
         /\ trace[a].ev = "gas_call" =>
              /\ trace[a].idx =
                   Cardinality({b \in 1..(a - 1) : trace[b].ev = "gas_call"})
              /\ \A b \in 1..(a - 1) :
                   /\ trace[b].ev = "gas_call" =>
                        TraceHas("gas_ok", trace[b].idx, b + 1, a - 1)
                   /\ trace[b].ev = "init_call" =>
                        \E c \in (b + 1)..(a - 1) :
                            /\ trace[c].ev = "init_ret"
                            /\ trace[c].idx = trace[b].idx
                            /\ trace[c].kind = trace[b].kind
              /\ trace[a].idx > 0 => TraceHas("push", trace[a].idx - 1, 1, a - 1)
         /\ trace[a].ev = "make" => TraceHas("gas_ok", trace[a].idx, 1, a - 1)
    /\ \A k \in 1..Len(requests) : requests[k].proxy = proxies[k]

C1_Witness ==
    /\ self = "Disjoint"
    /\ pc = "gas"
    /\ i = 2
    /\ Len(proxy_workloads) = 2
    /\ Len(proxy_workloads[2][2]) = 3

(***************************************************************************)
(* C2.  A failed generate_all_gas_for_test at proxy k ends configure with  *)
(* that very error: nothing is returned for any proxy, no later proxy is   *)
(* provisioned or initialised and the call is not retried; a finished      *)
(* configure either returns an entry for every proxy or an error.          *)
(***************************************************************************)
C2_FailFast ==
    /\ ~gas_failure.none =>
         /\ pc = "done"
         /\ result = [status |-> "err", err |-> gas_failure.err]
         /\ Len(requests) = gas_failure.idx + 1
         /\ trace[Len(trace)] = Event("gas_err", gas_failure.idx, "gas")
         /\ \A a \in 1..Len(trace) :
              /\ trace[a].idx <= gas_failure.idx
              /\ trace[a].ev \in {"make", "init_call", "push"} =>
                   trace[a].idx < gas_failure.idx
    /\ pc = "done" =>
         \/ /\ result.status = "err"
            /\ ~gas_failure.none
         \/ /\ result.status = "ok"
            /\ gas_failure.none
            /\ Len(result.value) = NumProxies
            /\ \A k \in 1..NumProxies :
                 /\ TraceHas("gas_ok", k - 1, 1, Len(trace))
                 /\ TraceHas("push", k - 1, 1, Len(trace))
    /\ pc # "done" => result.status = "pending"

C2_Witness ==
    /\ NumProxies = 3
    /\ ~gas_failure.none
    /\ gas_failure.idx = 1
    /\ result.status = "err"
    /\ Len(proxy_workloads) = 1

(***************************************************************************)
(* C3.  A successful configure returns one entry per input proxy, entry k  *)
(* carrying proxy k; the gas configs requested for entry k are the k-th    *)
(* chunk of each of the five lists (together the requests partition each   *)
(* list in order); in Combined mode every entry holds the one combination  *)
(* workload, built from the gas of its own chunk.                          *)
(***************************************************************************)
C3_ResultShape ==
    Succeeded =>
        /\ Len(result.value) = NumProxies
        /\ Len(requests) = NumProxies
        /\ \A k \in 1..NumProxies :
             /\ result.value[k][1] = proxies[k]
             /\ requests[k].proxy = proxies[k]
             /\ \A f \in ListNames :
                  /\ Requested(k, f) = chunks[f][k]
                  /\ Requested(k, f) =
                       SubSeq(configs[f],
                              SumLen([j \in 1..(k - 1) |-> Requested(j, f)], k - 1) + 1,
                              SumLen([j \in 1..k |-> Requested(j, f)], k))
             /\ self = "Combined" =>
                  /\ Len(result.value[k][2]) = 1
                  /\ result.value[k][2][1].kind = "combination"
                  /\ result.value[k][2][1].init_proxy = proxies[k]
                  /\ result.value[k][2][1].payload_gas =
                       generate_all_gas_for_test(
                           requests[k].workload_gas_config).workload_payload_gas
        /\ \A f \in ListNames :
             Concat([k \in 1..NumProxies |-> Requested(k, f)], NumProxies) = configs[f]

C3_Witness ==
    /\ Succeeded
    /\ self = "Combined"
    /\ NumProxies = 3
    /\ Len(configs.delegation_gas_configs) >= 3
    /\ Len(configs.shared_counter_workload_init_gas_config) >= 1

(***************************************************************************)
(* C4.  Each of the five lists, the empty ones included, is split into     *)
(* exactly one sublist per proxy; the sublists concatenated in index order *)
(* give the list back, their lengths sum to its length and differ by at    *)
(* most 1; so the loop's chunks[i] is in bounds for every i it reaches.    *)
(***************************************************************************)
C4_Chunking ==
    Configured =>
        \A f \in ListNames :
            /\ Len(chunks[f]) = NumProxies
            /\ Concat(chunks[f], NumProxies) = configs[f]
            /\ SumLen(chunks[f], NumProxies) = Len(configs[f])
            /\ \A j, k \in 1..NumProxies :
                 Len(chunks[f][j]) - Len(chunks[f][k]) <= 1
            /\ configs[f] = <<>> => \A k \in 1..NumProxies : chunks[f][k] = <<>>
            /\ pc \notin {"loop", "done"} => (i + 1) \in DOMAIN chunks[f]
            /\ (pc = "loop" /\ i < NumProxies) => (i + 1) \in DOMAIN chunks[f]

C4_Witness ==
    /\ pc = "gas"
    /\ NumProxies = 3
    /\ i = 2
    /\ Len(configs.shared_counter_workload_payload_gas_config) % 3 = 1
    /\ Len(configs.shared_counter_workload_init_gas_config) = 0
    /\ Len(configs.delegation_gas_configs) = 2

(***************************************************************************)
(* C5.  Disjoint mode, weights with a positive sum: for every kind         *)
(* qps = floor(w * target_qps / sum), workers = ceil(w * num_workers /     *)
(* sum) and max_ops = qps * in_flight_ratio.                               *)
(***************************************************************************)
C5_ExactQuota ==
    (Configured /\ self = "Disjoint" /\ WeightSum > 0) =>
        \A kind \in Kinds :
            /\ QuotaOf(kind)[1] = (WeightOf[kind] * opts.target_qps) \div WeightSum
            /\ QuotaOf(kind)[2] = CeilDiv(WeightOf[kind] * opts.num_workers, WeightSum)
            /\ QuotaOf(kind)[3] = QuotaOf(kind)[1] * opts.in_flight_ratio

(***************************************************************************)
(* C6.  A kind of weight 0 gets no gas configs at any proxy, in both       *)
(* modes, and in Disjoint mode its qps, worker count and max_ops are 0,    *)
(* whatever the other options are, all weights being 0 included.           *)
(***************************************************************************)
C6_ZeroWeight ==
    Configured =>
        \A kind \in Kinds :
            WeightOf[kind] = 0 =>
                /\ NoTokens(kind)
                /\ \A f \in ListsOf[kind] :
                     \A k \in 1..NumProxies : chunks[f][k] = <<>>
                /\ self = "Disjoint" => QuotaOf(kind) = <<0, 0, 0>>

C6_Witness ==
    /\ Succeeded
    /\ self = "Disjoint"
    /\ WeightSum = 0
    /\ opts.target_qps > 0
    /\ opts.num_workers > 0
    /\ opts.in_flight_ratio > 0
    /\ opts.num_transfer_accounts > 0

(***************************************************************************)
(* C7.  Disjoint mode: a kind of positive weight whose qps, max_ops or     *)
(* worker count is 0 is elided: no gas config of the kind is requested at  *)
(* any proxy and no workload of the kind is constructed.                   *)
(***************************************************************************)
C7_ElidedWhenDegenerate ==
    (Configured /\ self = "Disjoint") =>
        \A kind \in Kinds :
            (WeightOf[kind] > 0 /\ \E n \in 1..3 : QuotaOf(kind)[n] = 0) =>
                /\ NoTokens(kind)
                /\ NoInstance(kind)

\* whether the counter gas configs are generated, and from which max_ops
CounterNotElided ==
    IF self = "Disjoint"
    THEN \A n \in 1..3 : QuotaOf("shared_counter")[n] # 0
    ELSE opts.shared_counter # 0

CounterMaxOps ==
    IF self = "Disjoint" THEN quota.shared_counter_max_ops ELSE quota.max_ops

(***************************************************************************)
(* C8.  When the counter kind is not elided, its init configs number       *)
(* floor(max_ops * (100 - min(hotness, 100)) / 100) and its payload        *)
(* configs number max_ops.                                                 *)
(***************************************************************************)
C8_CounterCounts ==
    (Configured /\ CounterNotElided) =>
        /\ Len(configs.shared_counter_workload_init_gas_config) =
             DistinctCounters(CounterMaxOps)
        /\ Len(configs.shared_counter_workload_payload_gas_config) = CounterMaxOps

(***************************************************************************)
(* C9.  Combined mode: one max_ops = target_qps * in_flight_ratio sizes    *)
(* every positive-weight kind: counter payload configs = max_ops, counter  *)
(* init configs = floor(max_ops * novelty ratio), the transfer lists are   *)
(* generated from max_ops, the delegation configs number max_ops.          *)
(***************************************************************************)
C9_CombinedWholeMix ==
    (Configured /\ self = "Combined") =>
        /\ quota.max_ops = opts.target_qps * opts.in_flight_ratio
        /\ opts.shared_counter > 0 =>
             /\ Len(configs.shared_counter_workload_payload_gas_config) = quota.max_ops
             /\ Len(configs.shared_counter_workload_init_gas_config) =
                  DistinctCounters(quota.max_ops)
        /\ opts.transfer_object > 0 =>
             /\ configs.transfer_object_workload_tokens =
                  TransferObject_generate_coin_config_for_payloads(
                      quota.max_ops, opts.num_transfer_accounts, quota.max_ops)[1]
             /\ configs.transfer_object_workload_payload_gas_config =
                  TransferObject_generate_coin_config_for_payloads(
                      quota.max_ops, opts.num_transfer_accounts, quota.max_ops)[2]
        /\ opts.delegation > 0 =>
             Len(configs.delegation_gas_configs) = quota.max_ops

\* the run options of the delegation-only scenario
DelegationOnly ==
    /\ self = "Disjoint"
    /\ opts.shared_counter = 0
    /\ opts.transfer_object = 0
    /\ opts.delegation = 1
    /\ opts.target_qps > 0

DelegationAtEveryProxy ==
    /\ NoTokens("shared_counter")
    /\ NoTokens("transfer_object")
    /\ \A k \in 1..NumProxies : HasInstance(result.value[k], "delegation")
    /\ Len(configs.delegation_gas_configs) = opts.num_transfer_accounts
    /\ SumLen([k \in 1..NumProxies |-> Requested(k, "delegation_gas_configs")],
              NumProxies) = opts.num_transfer_accounts

====
